---- MODULE Spec2Model ----
(***************************************************************************)
(* Model of src/app.py, the "Noon Deal Sheet Generator": one Streamlit     *)
(* script whose "Generate Deal Sheets" handler turns a seller table into   *)
(* per-partner, per-deal sheets plus one summary sheet per deal code.      *)
(*                                                                         *)
(* Representation                                                          *)
(*   - a string is a sequence of one-character strings, so that            *)
(*     str.strip, str.isalnum and slicing are computed, not assumed;       *)
(*   - a spreadsheet cell is Null, Num(v) or Text(s);                      *)
(*   - a discount value v stands for v/100 (50 is 0.5, 1000 is 10),        *)
(*     a price p stands for p/100 (10000 is 100.00), a stock is a whole    *)
(*     number; with these units round(x, 2) is rounding to an integer.     *)
(***************************************************************************)
EXTENDS Integers, Sequences, FiniteSets, TLC

VARIABLES
    uploaded_file,   \* the file in the st.file_uploader widget
    deal_types,      \* st.session_state.deal_types
    fallback_stock,  \* the st.number_input value
    processed_data,  \* st.session_state.processed_data
    pc,              \* position of the Generate handler
    df,              \* the table read by pd.read_excel, headers stripped
    active_deals,    \* the deals whose code is non-blank
    partners,        \* df['ID Partner'].unique()
    idx,             \* number of partners whose deals have been processed
    sheets_created,  \* the handler's counter of to_excel calls
    deal_summaries,  \* deal_code -> list of collected offer codes
    writer,          \* the to_excel calls made on the ExcelWriter, in order
    progress_bar,    \* the values given to the progress bar, in order
    message          \* the st.warning / st.error / st.success shown last

vars == <<uploaded_file, deal_types, fallback_stock, processed_data, pc, df,
          active_deals, partners, idx, sheets_created, deal_summaries,
          writer, progress_bar, message>>

(***************************************************************************)
(* Bounds of the model.                                                    *)
(***************************************************************************)
MaxRows == 2
MaxAdded == 1

(***************************************************************************)
(* Program constants.                                                      *)
(***************************************************************************)
MaxIdLen == 15
MaxDealLen == 10
MaxCodeLen == 20
MinFallback == 1
DefaultFallback == 10

(***************************************************************************)
(* Strings.                                                                *)
(***************************************************************************)
Digits == <<"0", "1", "2", "3", "4", "5", "6", "7", "8", "9">>

DigitChars == {Digits[i] : i \in 1..Len(Digits)}

LetterChars ==
    {"A", "B", "C", "D", "E", "F", "G", "H", "I", "J", "K", "L", "M",
     "N", "O", "P", "Q", "R", "S", "T", "U", "V", "W", "X", "Y", "Z",
     "a", "b", "c", "d", "e", "f", "g", "h", "i", "j", "k", "l", "m",
     "n", "o", "p", "q", "r", "s", "t", "u", "v", "w", "x", "y", "z"}

WhitespaceChars == {" ", "\t", "\n"}

\* Characters xlsxwriter refuses in a worksheet name.
InvalidSheetChars == {"[", "]", ":", "*", "?", "/", "\\"}

IsAlnum(x) == x \in LetterChars \cup DigitChars

IsSafeCodeChar(x) == IsAlnum(x) \/ x \in {"-", "_"}

Take(s, n) == SubSeq(s, 1, IF Len(s) < n THEN Len(s) ELSE n)

RECURSIVE LStrip(_)
LStrip(s) ==
    IF s # <<>> /\ Head(s) \in WhitespaceChars THEN LStrip(Tail(s)) ELSE s

RECURSIVE RStrip(_)
RStrip(s) ==
    IF s # <<>> /\ s[Len(s)] \in WhitespaceChars
    THEN RStrip(SubSeq(s, 1, Len(s) - 1))
    ELSE s

Strip(s) == RStrip(LStrip(s))

(***************************************************************************)
(* Cells.                                                                  *)
(***************************************************************************)
Null == [t |-> "null"]

Num(v) == [t |-> "num", v |-> v]

Text(s) == [t |-> "text", s |-> s]

IsNum(c) == c.t = "num"

DigitValue(ch) == (CHOOSE i \in 1..Len(Digits) : Digits[i] = ch) - 1

RECURSIVE ParseDigits(_, _)
ParseDigits(s, acc) ==
    IF s = <<>> THEN acc
    ELSE ParseDigits(Tail(s), acc * 10 + DigitValue(Head(s)))

\* pd.to_numeric(..., errors='coerce') on one cell: a number stays, a text of
\* digits becomes that number, anything else becomes NaN (Null).
ToNumeric(c) ==
    CASE c.t = "num"  -> c
      [] c.t = "null" -> Null
      [] c.t = "text" ->
            IF c.s # <<>> /\ \A i \in 1..Len(c.s) : c.s[i] \in DigitChars
            THEN Num(100 * ParseDigits(c.s, 0))
            ELSE Null

RECURSIVE NatToStr(_)
NatToStr(n) ==
    IF n < 10 THEN <<Digits[n + 1]>>
    ELSE NatToStr(n \div 10) \o <<Digits[(n % 10) + 1]>>

\* str(partner_id): a text is itself, NaN prints as "nan", a whole number as
\* its digits (partner ids are not negative).
StrOf(c) ==
    CASE c.t = "text" -> c.s
      [] c.t = "null" -> <<"n", "a", "n">>
      [] c.t = "num"  -> NatToStr(c.v)

(***************************************************************************)
(* Column names of the seller table and the default deal columns.          *)
(***************************************************************************)
ID_Partner == <<"I", "D", " ", "P", "a", "r", "t", "n", "e", "r">>

Offer_Code == <<"O", "f", "f", "e", "r", " ", "C", "o", "d", "e">>

Offer_Price == <<"O", "f", "f", "e", "r", " ", "P", "r", "i", "c", "e">>

Psku == <<"P", "s", "k", "u">>

Psku_Live_Express_Stock ==
    <<"P", "s", "k", "u", " ", "L", "i", "v", "e", " ",
      "E", "x", "p", "r", "e", "s", "s", " ", "S", "t", "o", "c", "k">>

Spotlight == <<"S", "p", "o", "t", "l", "i", "g", "h", "t">>

Mega == <<"M", "e", "g", "a">>

Flashsale == <<"F", "l", "a", "s", "h", "s", "a", "l", "e">>

NewColumn == <<"N", "e", "w", "C", "o", "l", "u", "m", "n">>

SummaryPrefix == <<"S", "u", "m", "m", "a", "r", "y", "_">>

\* st.session_state.deal_types as first set
DefaultDealTypes ==
    << [col_name |-> Spotlight, deal_code |-> <<>>],
       [col_name |-> Mega, deal_code |-> <<>>],
       [col_name |-> Flashsale, deal_code |-> <<>>] >>

(***************************************************************************)
(* Reading the table.                                                      *)
(***************************************************************************)
Corrupt == [corrupt |-> TRUE]

NoFile == [nofile |-> TRUE]

\* pd.read_excel, then df.columns.str.strip()
ReadExcel(file) ==
    LET cols == {Strip(h) : h \in file.headers}
        raw(c) == CHOOSE h \in file.headers : Strip(h) = c
    IN [columns |-> cols,
        rows |-> [i \in 1..Len(file.rows) |->
                     [c \in cols |-> file.rows[i][raw(c)]]]]

\* the deals whose code is not blank
ActiveDeals(dts) == SelectSeq(dts, LAMBDA d : Strip(d.deal_code) # <<>>)

RECURSIVE UniqueFrom(_, _, _)
UniqueFrom(cells, i, acc) ==
    IF i > Len(cells) THEN acc
    ELSE UniqueFrom(cells, i + 1,
            IF \E k \in 1..Len(acc) : acc[k] = cells[i]
            THEN acc ELSE Append(acc, cells[i]))

\* df['ID Partner'].unique(): first-seen order, NaN kept once
Unique(table) ==
    UniqueFrom([i \in 1..Len(table.rows) |-> table.rows[i][ID_Partner]], 1, <<>>)

\* df[df['ID Partner'] == partner_id]: the row positions kept, in order; NaN
\* equals nothing, itself included
PartnerDf(table, partner_id) ==
    SelectSeq([i \in 1..Len(table.rows) |-> i],
        LAMBDA i : partner_id # Null /\ table.rows[i][ID_Partner] = partner_id)

(***************************************************************************)
(* The row transformer (lines 93-126).                                     *)
(***************************************************************************)
\* variant: notna() & (>= 0)
MaskAlsoZero(table, col_name, i) ==
    LET c == ToNumeric(table.rows[i][col_name]) IN IsNum(c) /\ c.v >= 0

\* mask = notna() & (> 0), on the coerced column (lines 94-96)
Mask(table, col_name, i) ==
    LET c == ToNumeric(table.rows[i][col_name]) IN IsNum(c) /\ c.v > 0

\* deal_data: the partner's rows that pass the mask
DealData(table, col_name, pdf) ==
    SelectSeq(pdf, LAMBDA i : Mask(table, col_name, i))

Discount(table, col_name, i) == ToNumeric(table.rows[i][col_name]).v

RECURSIVE MaxOf(_)
MaxOf(s) ==
    IF Len(s) = 1 THEN s[1]
    ELSE LET m == MaxOf(Tail(s)) IN IF s[1] > m THEN s[1] ELSE m

\* deal_data[col_name].max() > 1
IsPercent(table, col_name, data) ==
    MaxOf([k \in 1..Len(data) |-> Discount(table, col_name, data[k])]) > 100

\* variant: the scale decided row by row
DiscountFactorPerRow(table, col_name, data, i) ==
    IF Discount(table, col_name, i) > 100
    THEN Discount(table, col_name, i)
    ELSE 100 * Discount(table, col_name, i)

\* discount_factor of one row, in ten-thousandths: the value / 100 when the
\* subset's maximum exceeds 1, the value itself otherwise (lines 104-107)
DiscountFactor(table, col_name, data, i) ==
    IF IsPercent(table, col_name, data)
    THEN Discount(table, col_name, i)
    ELSE 100 * Discount(table, col_name, i)

\* round to the nearest whole number of a / b, b > 0, ties to even
RoundDiv(a, b) ==
    LET q == a \div b
        r == a % b
    IN IF 2 * r < b THEN q
       ELSE IF 2 * r > b THEN q + 1
       ELSE IF q % 2 = 0 THEN q ELSE q + 1

\* variant: Offer Price * (discount_factor - 1)
DealPriceSwapped(price, factor) == RoundDiv(price * (factor - 10000), 10000)

\* (Offer Price * (1 - discount_factor)).round(2)
DealPrice(price, factor) == RoundDiv(price * (10000 - factor), 10000)

\* variant: fillna(0) without the fallback
DealStockKeepZero(stock, fallback) == IF stock = Null THEN 0 ELSE stock.v

\* fillna(0), then fallback_stock if x == 0 else x (lines 112-115)
DealStock(stock, fallback) ==
    LET x == IF stock = Null THEN 0 ELSE stock.v
    IN IF x = 0 THEN fallback ELSE x

\* output_df: one row per row of deal_data
OutputDf(table, deal, data, fallback) ==
    [k \in 1..Len(data) |->
        LET row == table.rows[data[k]]
        IN [index |-> data[k],
            deal_code |-> deal.deal_code,
            id_partner |-> row[ID_Partner],
            partner_sku |-> row[Psku],
            deal_price |-> DealPrice(row[Offer_Price].v,
                              DiscountFactor(table, deal.col_name, data, data[k])),
            deal_stock |-> DealStock(row[Psku_Live_Express_Stock], fallback),
            business_model |-> "noon"]]

(***************************************************************************)
(* Sheet names (lines 128-130 and 143-144).                                *)
(***************************************************************************)
CleanDeal(col_name) == Take(SelectSeq(col_name, IsAlnum), MaxDealLen)

CleanId(partner_id) == Take(StrOf(partner_id), MaxIdLen)

SheetName(partner_id, col_name) ==
    CleanId(partner_id) \o <<"_">> \o CleanDeal(col_name)

SafeDealCode(deal_code) == Take(SelectSeq(deal_code, IsSafeCodeChar), MaxCodeLen)

SummarySheetName(deal_code) == SummaryPrefix \o SafeDealCode(deal_code)

\* xlsxwriter raises on a worksheet name holding one of these characters
InvalidWorksheetName(name) ==
    \E k \in 1..Len(name) : name[k] \in InvalidSheetChars

(***************************************************************************)
(* The processing loop (lines 86-133) and the summaries (lines 136-148).   *)
(***************************************************************************)
\* The columns lines 109-123 read besides the deal's own and 'ID Partner'.
ReadColumns == {Offer_Price, Psku_Live_Express_Stock, Psku}

\* One pass of the body of `for deal in active_deals` for one partner.  acc
\* holds writer, deal_summaries, sheets_created and raised (an exception
\* left the loop).
DealStep(acc, table, partner_id, deal, fallback) ==
    LET data == DealData(table, deal.col_name, PartnerDf(table, partner_id))
        name == SheetName(partner_id, deal.col_name)
        collected ==
            [acc EXCEPT !.deal_summaries[deal.deal_code] =
                @ \o [k \in 1..Len(data) |-> table.rows[data[k]][Offer_Code]]]
    IN IF acc.raised \/ deal.col_name \notin table.columns THEN acc
       ELSE IF data = <<>> THEN acc
       ELSE IF Offer_Code \notin table.columns THEN [acc EXCEPT !.raised = TRUE]
       ELSE IF ~(ReadColumns \subseteq table.columns) \/ InvalidWorksheetName(name)
            THEN [collected EXCEPT !.raised = TRUE]
            ELSE [collected EXCEPT
                    !.writer = Append(@,
                        [sheet_name |-> name,
                         kind |-> "deal",
                         partner_id |-> partner_id,
                         deal |-> deal,
                         rows |-> OutputDf(table, deal, data, fallback)]),
                    !.sheets_created = @ + 1]

RECURSIVE DealsLoop(_, _, _, _, _, _)
DealsLoop(acc, table, partner_id, deals, j, fallback) ==
    IF j > Len(deals) THEN acc
    ELSE DealsLoop(DealStep(acc, table, partner_id, deals[j], fallback),
                   table, partner_id, deals, j + 1, fallback)

\* the keys of deal_summaries in insertion order
SummaryKeys(deals) == UniqueFrom([j \in 1..Len(deals) |-> deals[j].deal_code], 1, <<>>)

Range(s) == {s[k] : k \in 1..Len(s)}

\* variant: list(offer_codes), duplicates kept
KeepDuplicates(offer_codes) == offer_codes

\* list(set(offer_codes)): each code once; the order is the set's own
UniqueOfferCodes(offer_codes) ==
    LET S == Range(offer_codes)
    IN CHOOSE u \in [1..Cardinality(S) -> S] : Range(u) = S

RECURSIVE SummariesLoop(_, _, _)
SummariesLoop(acc, keys, j) ==
    IF j > Len(keys) THEN acc
    ELSE LET offer_codes == acc.deal_summaries[keys[j]]
             next ==
                IF offer_codes = <<>> THEN acc
                ELSE [acc EXCEPT
                        !.writer = Append(@,
                            [sheet_name |-> SummarySheetName(keys[j]),
                             kind |-> "summary",
                             deal_code |-> keys[j],
                             rows |-> UniqueOfferCodes(offer_codes)]),
                        !.sheets_created = @ + 1]
         IN SummariesLoop(next, keys, j + 1)

\* A later to_excel under a name already used writes into the same
\* worksheet: its rows replace the first rows of what was there.
Overlay(new, old) ==
    IF Len(old) > Len(new) THEN new \o SubSeq(old, Len(new) + 1, Len(old)) ELSE new

RECURSIVE WorkbookFrom(_, _, _)
WorkbookFrom(calls, k, book) ==
    IF k > Len(calls) THEN book
    ELSE LET c == calls[k]
             sheet == IF c.sheet_name \in DOMAIN book
                      THEN Overlay(c.rows, book[c.sheet_name]) ELSE c.rows
         IN WorkbookFrom(calls, k + 1,
                [n \in DOMAIN book \cup {c.sheet_name} |->
                    IF n = c.sheet_name THEN sheet ELSE book[n]])

\* output.getvalue(): the workbook the calls built, sheet name -> rows
Workbook(calls) == WorkbookFrom(calls, 1, <<>>)

None == [none |-> TRUE]

(***************************************************************************)
(* The handler of the Generate button (lines 55-160).                      *)
(***************************************************************************)
NoLocals ==
    /\ df' = None
    /\ active_deals' = <<>>
    /\ partners' = <<>>
    /\ idx' = 0
    /\ sheets_created' = 0
    /\ deal_summaries' = <<>>
    /\ writer' = <<>>

Widgets == <<uploaded_file, deal_types, fallback_stock>>

\* except Exception as e: st.error(...); processed_data is left as it was
Raise ==
    /\ message' = "error_exception"
    /\ pc' = "idle"
    /\ NoLocals
    /\ progress_bar' = IF pc = "idle" THEN <<>> ELSE progress_bar
    /\ UNCHANGED <<Widgets, processed_data>>

\* variant: without the 'Offer Code' check
ConfigCheckNoOfferCode(deals, table) ==
    IF deals = <<>> THEN "warning_no_deal_code"
    ELSE IF ID_Partner \notin table.columns THEN "error_no_id_partner"
    ELSE ""

\* the checks of lines 68-73, in their order: the message, or "" to go on
ConfigCheck(deals, table) ==
    IF deals = <<>> THEN "warning_no_deal_code"
    ELSE IF ID_Partner \notin table.columns THEN "error_no_id_partner"
    ELSE IF Offer_Code \notin table.columns THEN "error_no_offer_code"
    ELSE ""

Generate ==
    /\ pc = "idle"
    /\ uploaded_file # NoFile
    /\ IF uploaded_file = Corrupt
       THEN Raise
       ELSE LET table == ReadExcel(uploaded_file)
                deals == ActiveDeals(deal_types)
                check == ConfigCheck(deals, table)
            IN IF check # ""
               THEN /\ message' = check
                    /\ pc' = "idle"
                    /\ NoLocals
                    /\ progress_bar' = <<>>
                    /\ UNCHANGED <<Widgets, processed_data>>
               ELSE /\ df' = table
                    /\ active_deals' = deals
                    /\ partners' = Unique(table)
                    /\ idx' = 0
                    /\ sheets_created' = 0
                    /\ deal_summaries' =
                          [c \in Range(SummaryKeys(deals)) |-> <<>>]
                    /\ writer' = <<>>
                    /\ progress_bar' = << <<0, 1>> >>
                    /\ message' = ""
                    /\ pc' = IF Unique(table) = <<>> THEN "summaries" ELSE "deals"
                    /\ UNCHANGED <<Widgets, processed_data>>

\* lines 87-131 for partners[idx]: every active deal of one partner
ProcessPartner ==
    /\ pc = "deals"
    /\ LET acc == DealsLoop(
                     [writer |-> writer, deal_summaries |-> deal_summaries,
                      sheets_created |-> sheets_created, raised |-> FALSE],
                     df, partners[idx + 1], active_deals, 1, fallback_stock)
       IN IF acc.raised
          THEN Raise
          ELSE /\ writer' = acc.writer
               /\ deal_summaries' = acc.deal_summaries
               /\ sheets_created' = acc.sheets_created
               /\ pc' = "progress"
               /\ UNCHANGED <<Widgets, processed_data, df, active_deals,
                              partners, idx, progress_bar, message>>

\* variant: idx / len(partners)
ProgressValueFromZero(i, n) == <<i, n>>

\* (idx + 1) / len(partners), kept as the pair <<numerator, denominator>>;
\* i is the number of partners reported before
ProgressValue(i, n) == <<i + 1, n>>

\* line 133
ReportProgress ==
    /\ pc = "progress"
    /\ progress_bar' = Append(progress_bar, ProgressValue(idx, Len(partners)))
    /\ idx' = idx + 1
    /\ pc' = IF idx + 1 = Len(partners) THEN "summaries" ELSE "deals"
    /\ UNCHANGED <<Widgets, processed_data, df, active_deals, partners,
                   sheets_created, deal_summaries, writer, message>>

\* lines 136-148
WriteSummaries ==
    /\ pc = "summaries"
    /\ LET acc == SummariesLoop(
                     [writer |-> writer, deal_summaries |-> deal_summaries,
                      sheets_created |-> sheets_created],
                     SummaryKeys(active_deals), 1)
       IN /\ writer' = acc.writer
          /\ sheets_created' = acc.sheets_created
    /\ pc' = "store"
    /\ UNCHANGED <<Widgets, processed_data, df, active_deals, partners, idx,
                   deal_summaries, progress_bar, message>>

\* lines 151-157
Store ==
    /\ pc = "store"
    /\ IF sheets_created > 0
       THEN /\ processed_data' = Workbook(writer)
            /\ message' = "success"
       ELSE /\ processed_data' = None
            /\ message' = "warning_no_matching_deals"
    /\ pc' = "idle"
    /\ NoLocals
    /\ UNCHANGED <<Widgets, progress_bar>>

(***************************************************************************)
(* Input tables.  A row is given by its seven cells; a file holds the      *)
(* rows under its own (unstripped) headers.                                *)
(***************************************************************************)
Pad(h) == <<" ">> \o h \o <<" ">>

StdHeaders ==
    {ID_Partner, Psku, Offer_Price, Psku_Live_Express_Stock, Offer_Code,
     Spotlight, Mega}

FieldOf(r, c) ==
    CASE c = ID_Partner -> r.partner
      [] c = Psku -> r.psku
      [] c = Offer_Price -> r.price
      [] c = Psku_Live_Express_Stock -> r.stock
      [] c = Offer_Code -> r.offer
      [] c = Spotlight -> r.spot
      [] c = Mega -> r.mega

MkFile(recs, hdrs) ==
    [headers |-> hdrs,
     rows |-> [i \in 1..Len(recs) |-> [h \in hdrs |-> FieldOf(recs[i], Strip(h))]]]

RowsOf(P, R, S, O, D1, D2) ==
    [partner : P, psku : {Text(<<"K", "1">>)}, price : R, stock : S,
     offer : O, spot : D1, mega : D2]

Tables(rowset) == UNION {[1..n -> rowset] : n \in 0..MaxRows}

PA == Text(<<"A", "1">>)

PB == Text(<<"B", "2">>)

OC1 == Text(<<"O", "C", "1">>)

OC2 == Text(<<"O", "C", "2">>)

S1 == <<"S", "1">>

M1 == <<"M", "-", "1">>

F1 == <<"F", "1">>

(***************************************************************************)
(* The widgets (lines 24-50 and 53).  Any widget event reruns the script,  *)
(* which redraws the page without the last run's message and progress bar. *)
(***************************************************************************)
DealCodes == {<<>>, <<" ">>, S1}

ColNames == {NewColumn, Spotlight}

FallbackStocks == {MinFallback, DefaultFallback}

SessionRows ==
    RowsOf({PA}, {Num(10000)}, {Num(0)}, {OC1}, {Num(1000), Num(0)}, {Null})

SessionFiles ==
    {Corrupt}
    \cup {MkFile(<<r>>, StdHeaders \ {h}) :
            r \in SessionRows, h \in {ID_Partner, Offer_Code, Offer_Price, Mega}}

Rerun ==
    /\ pc = "idle"
    /\ message' = ""
    /\ progress_bar' = <<>>
    /\ UNCHANGED <<processed_data, pc, df, active_deals, partners, idx,
                   sheets_created, deal_summaries, writer>>

Upload ==
    /\ Rerun
    /\ \E f \in SessionFiles : uploaded_file' = f
    /\ UNCHANGED <<deal_types, fallback_stock>>

SetFallbackStock ==
    /\ Rerun
    /\ \E n \in FallbackStocks : n >= MinFallback /\ fallback_stock' = n
    /\ UNCHANGED <<uploaded_file, deal_types>>

\* line 46
SetDealCode ==
    /\ Rerun
    /\ \E i \in 1..Len(deal_types), code \in DealCodes :
          deal_types' = [deal_types EXCEPT ![i].deal_code = code]
    /\ UNCHANGED <<uploaded_file, fallback_stock>>

\* line 42: only the deal types past the first three have a name field
SetColName ==
    /\ Rerun
    /\ \E i \in 1..Len(deal_types), name \in ColNames :
          /\ ~(i - 1 < 3)
          /\ deal_types' = [deal_types EXCEPT ![i].col_name = name]
    /\ UNCHANGED <<uploaded_file, fallback_stock>>

\* lines 48-50
AddDealType ==
    /\ Rerun
    /\ Len(deal_types) < Len(DefaultDealTypes) + MaxAdded
    /\ deal_types' = Append(deal_types, [col_name |-> NewColumn, deal_code |-> <<>>])
    /\ UNCHANGED <<uploaded_file, fallback_stock>>

(***************************************************************************)
(* Specifications.                                                         *)
(***************************************************************************)
InitLocals ==
    /\ processed_data = None
    /\ pc = "idle"
    /\ df = None
    /\ active_deals = <<>>
    /\ partners = <<>>
    /\ idx = 0
    /\ sheets_created = 0
    /\ deal_summaries = <<>>
    /\ writer = <<>>
    /\ progress_bar = <<>>
    /\ message = ""

\* the state after the script's first run (lines 10-17, 24-29, 53)
Init ==
    /\ uploaded_file = NoFile
    /\ deal_types = DefaultDealTypes
    /\ fallback_stock = DefaultFallback
    /\ InitLocals

RunSteps ==
    \/ Generate
    \/ ProcessPartner
    \/ ReportProgress
    \/ WriteSummaries
    \/ Store

Next ==
    \/ Upload
    \/ SetFallbackStock
    \/ SetDealCode
    \/ SetColName
    \/ AddDealType
    \/ RunSteps

Spec == Init /\ [][Next]_vars

(***************************************************************************)
(* Specifications of one table under one configuration: the widgets are    *)
(* already set (any of these deal lists is what the sidebar can hold) and  *)
(* only the Generate handler runs, as often as the button is pressed.      *)
(***************************************************************************)
Config(c1, c2, c3, added) ==
    << [col_name |-> Spotlight, deal_code |-> c1],
       [col_name |-> Mega, deal_code |-> c2],
       [col_name |-> Flashsale, deal_code |-> c3] >> \o added

InitRun(files, configs, fallbacks) ==
    /\ uploaded_file \in files
    /\ deal_types \in configs
    /\ fallback_stock \in fallbacks
    /\ InitLocals

\* which rows pass the filter: every kind of discount cell, null partner ids
FilterRows ==
    RowsOf({PA, PB, Null}, {Num(10000)}, {Num(1)}, {OC1},
           {Null, Text(<<"x">>), Text(<<"5">>), Num(0), Num(-50), Num(50)},
           {Num(2000)})

\* the files hold no 'Flashsale' column
FilterConfigs ==
    {Config(S1, <<>>, <<" ">>, <<>>), Config(S1, M1, F1, <<>>)}

InitFilter ==
    InitRun({MkFile(t, StdHeaders) : t \in Tables(FilterRows)},
            FilterConfigs, {DefaultFallback})

SpecFilter == InitFilter /\ [][RunSteps]_vars

\* the discount scale: values on both sides of 1, for two partners
PriceRows ==
    RowsOf({PA, PB}, {Num(10000), Num(333)}, {Num(1)}, {OC1},
           {Null, Num(50), Num(100), Num(1000)}, {Null})

InitPrice ==
    InitRun({MkFile(t, StdHeaders) : t \in Tables(PriceRows)},
            {Config(S1, <<>>, <<>>, <<>>)}, {DefaultFallback})

SpecPrice == InitPrice /\ [][RunSteps]_vars

\* stock and price ranges
StockRows ==
    RowsOf({PA}, {Num(10000), Num(-500)},
           {Null, Num(0), Num(10), Num(-1)}, {OC1},
           {Num(50), Num(10000), Num(15000)}, {Null})

InitStock ==
    InitRun({MkFile(t, StdHeaders) : t \in Tables(StockRows)},
            {Config(S1, <<>>, <<>>, <<>>)}, FallbackStocks)

SpecStock == InitStock /\ [][RunSteps]_vars

\* summaries: two deals, offer codes that repeat
SummaryRows ==
    RowsOf({PA, PB}, {Num(10000)}, {Num(1)}, {OC1, OC2},
           {Null, Num(1000)}, {Null, Num(20)})

SummaryConfigs ==
    {Config(S1, <<>>, <<>>, <<>>), Config(S1, M1, <<>>, <<>>),
     Config(S1, S1, <<>>, <<>>)}

InitSummary ==
    InitRun({MkFile(t, StdHeaders) : t \in Tables(SummaryRows)},
            SummaryConfigs, {DefaultFallback})

SpecSummary == InitSummary /\ [][RunSteps]_vars

\* sheet names: partner ids with other characters and past 15 characters,
\* two deals on one column, a padded header
A15 == [k \in 1..MaxIdLen |-> "A"]

NameRows ==
    RowsOf({PA, Text(<<"A", "-", "1">>), Text(<<"A", "/", "1">>),
            Text(A15 \o <<"X">>), Text(A15 \o <<"Y">>)},
           {Num(10000)}, {Num(1)}, {OC1}, {Num(1000)}, {Null})

NameConfigs ==
    {Config(S1, <<>>, <<>>, <<>>),
     Config(S1, <<>>, <<>>, <<[col_name |-> Spotlight, deal_code |-> M1]>>)}

NameHeaders ==
    {StdHeaders, (StdHeaders \ {ID_Partner}) \cup {Pad(ID_Partner)}}

InitNames ==
    InitRun({MkFile(t, h) : t \in Tables(NameRows), h \in NameHeaders},
            NameConfigs, {DefaultFallback})

SpecNames == InitNames /\ [][RunSteps]_vars

(***************************************************************************)
(* Vocabulary of the properties.                                           *)
(***************************************************************************)
RowIds == 1..Len(df.rows)

\* the partners whose deal loop has been completed
Done == IF pc = "progress" THEN idx + 1 ELSE idx

DealCalls == {k \in 1..Len(writer) : writer[k].kind = "deal"}

SummaryCalls == {k \in 1..Len(writer) : writer[k].kind = "summary"}

\* the row's value in the deal's column is numeric and above 0
Qualifies(i, d) ==
    /\ d.col_name \in df.columns
    /\ ToNumeric(df.rows[i][d.col_name]).t = "num"
    /\ ToNumeric(df.rows[i][d.col_name]).v > 0

RowOf(i, p) == p # Null /\ df.rows[i][ID_Partner] = p

HasOutputRow(i, p, d) ==
    \E k \in DealCalls :
        /\ writer[k].partner_id = p
        /\ writer[k].deal = d
        /\ \E r \in 1..Len(writer[k].rows) : writer[k].rows[r].index = i

Count(seq, x) == Cardinality({k \in 1..Len(seq) : seq[k] = x})

\* the (row, deal) pairs of completed partners that qualify under code c
\* with offer code o
QualifiedPairs(c, o) ==
    {ij \in RowIds \X (1..Len(active_deals)) :
        /\ active_deals[ij[2]].deal_code = c
        /\ \E k \in 1..Done : RowOf(ij[1], partners[k])
        /\ Qualifies(ij[1], active_deals[ij[2]])
        /\ df.rows[ij[1]][Offer_Code] = o}

\* C1: a row yields an output row in its (partner, deal) sheet and an entry
\* in the deal's accumulator exactly when its value in the deal's column is
\* numeric and above 0.
C1_FilterByPositiveDiscount ==
    pc # "idle" =>
        /\ \A k \in 1..Len(partners), i \in RowIds, j \in 1..Len(active_deals) :
              HasOutputRow(i, partners[k], active_deals[j])
                <=> /\ k <= Done
                    /\ RowOf(i, partners[k])
                    /\ Qualifies(i, active_deals[j])
        /\ \A c \in DOMAIN deal_summaries, i \in RowIds :
              Count(deal_summaries[c], df.rows[i][Offer_Code])
                = Cardinality(QualifiedPairs(c, df.rows[i][Offer_Code]))

\* a finished loop with one row kept and one row of discount 0 left out
C1_Witness ==
    /\ pc = "store"
    /\ \E i, i2 \in RowIds :
          /\ df.rows[i][Spotlight] = Num(0)
          /\ df.rows[i][ID_Partner] = PA
          /\ ~HasOutputRow(i, PA, active_deals[1])
          /\ HasOutputRow(i2, PA, active_deals[1])

\* the rows of partner p hold a numeric value above 1 in column col
AnyAboveOne(p, col) ==
    \E i \in RowIds :
        /\ RowOf(i, p)
        /\ ToNumeric(df.rows[i][col]).t = "num"
        /\ ToNumeric(df.rows[i][col]).v > 100

\* C2: the scale is decided once per (partner, column): percent for every
\* row when some value of the partner's column exceeds 1, fraction for every
\* row otherwise.
C2_ScaleDecidedPerSubset ==
    \A k \in DealCalls : \A r \in 1..Len(writer[k].rows) :
        LET out == writer[k].rows[r]
            col == writer[k].deal.col_name
            d == ToNumeric(df.rows[out.index][col]).v
            price == df.rows[out.index][Offer_Price].v
        IN out.deal_price =
              IF AnyAboveOne(writer[k].partner_id, col)
              THEN RoundDiv(price * (10000 - d), 10000)
              ELSE RoundDiv(price * (100 - d), 100)

\* a sheet holding a value below 1 and a value above 1, both as percents:
\* 100.00 at 10 gives 90.00, 100.00 at 0.5 gives 99.50
C2_Witness ==
    \E k \in DealCalls : \E r, r2 \in 1..Len(writer[k].rows) :
        /\ df.rows[writer[k].rows[r].index][Spotlight] = Num(1000)
        /\ df.rows[writer[k].rows[r].index][Offer_Price] = Num(10000)
        /\ writer[k].rows[r].deal_price = 9000
        /\ df.rows[writer[k].rows[r2].index][Spotlight] = Num(50)
        /\ df.rows[writer[k].rows[r2].index][Offer_Price] = Num(10000)
        /\ writer[k].rows[r2].deal_price = 9950

\* the row's live express stock with null taken as 0
CoercedStock(i) ==
    IF df.rows[i][Psku_Live_Express_Stock] = Null THEN 0
    ELSE df.rows[i][Psku_Live_Express_Stock].v

\* C3 as stated: deal_stock is the fallback stock if and only if the stock,
\* null as 0, is 0; otherwise it is the original stock.
C3_FallbackIffZero ==
    \A k \in DealCalls : \A r \in 1..Len(writer[k].rows) :
        LET out == writer[k].rows[r] IN
        /\ out.deal_stock = fallback_stock <=> CoercedStock(out.index) = 0
        /\ CoercedStock(out.index) # 0 => out.deal_stock = CoercedStock(out.index)

\* C3 as amended: a stock of 0 (null as 0) gives the fallback stock, any
\* other stock is kept; the two coincide when the stock is the fallback.
C3_FallbackWhenZero ==
    \A k \in DealCalls : \A r \in 1..Len(writer[k].rows) :
        LET out == writer[k].rows[r] IN
        /\ CoercedStock(out.index) = 0 => out.deal_stock = fallback_stock
        /\ CoercedStock(out.index) # 0 => out.deal_stock = CoercedStock(out.index)

\* one sheet with a null stock replaced and another stock kept
C3_Witness ==
    \E k \in DealCalls : \E r, r2 \in 1..Len(writer[k].rows) :
        /\ df.rows[writer[k].rows[r].index][Psku_Live_Express_Stock] = Null
        /\ writer[k].rows[r].deal_stock = fallback_stock
        /\ df.rows[writer[k].rows[r2].index][Psku_Live_Express_Stock] = Num(10)
        /\ fallback_stock = MinFallback
        /\ writer[k].rows[r2].deal_stock = 10

\* C4 as stated: every output row has deal_price >= 0 and deal_stock >= 1.
C4_PriceAndStockBounds ==
    \A k \in DealCalls : \A r \in 1..Len(writer[k].rows) :
        /\ writer[k].rows[r].deal_price >= 0
        /\ writer[k].rows[r].deal_stock >= 1

\* C4 as amended: deal_price >= 0 for a row whose offer price is >= 0 and
\* whose discount value is at most 100; deal_stock >= 1 for a row whose
\* stock is null, 0 or at least 1.
C4_BoundsOnSaneRows ==
    \A k \in DealCalls : \A r \in 1..Len(writer[k].rows) :
        LET out == writer[k].rows[r]
            d == ToNumeric(df.rows[out.index][writer[k].deal.col_name]).v
            price == df.rows[out.index][Offer_Price].v
        IN /\ (price >= 0 /\ d <= 10000) => out.deal_price >= 0
           /\ (CoercedStock(out.index) = 0 \/ CoercedStock(out.index) >= 1)
                 => out.deal_stock >= 1

\* a full discount of 100 on a positive price, written with price 0, on a
\* row whose stock of 0 became the fallback
C4_Witness ==
    \E k \in DealCalls : \E r \in 1..Len(writer[k].rows) :
        /\ df.rows[writer[k].rows[r].index][Spotlight] = Num(10000)
        /\ df.rows[writer[k].rows[r].index][Offer_Price] = Num(10000)
        /\ df.rows[writer[k].rows[r].index][Psku_Live_Express_Stock] = Num(0)
        /\ writer[k].rows[r].deal_price = 0
        /\ writer[k].rows[r].deal_stock = fallback_stock

\* the offer codes of the rows that qualify for a deal of code c
QualifiedOfferCodes(c) ==
    {df.rows[i][Offer_Code] : i \in
        {i \in RowIds : \E j \in 1..Len(active_deals), k \in 1..Len(partners) :
            /\ active_deals[j].deal_code = c
            /\ RowOf(i, partners[k])
            /\ Qualifies(i, active_deals[j])}}

\* C5: after the run, a deal code has a summary sheet exactly when a row
\* qualified for it, and the sheet lists every qualifying offer code once
\* and nothing else.
C5_SummaryIsUniqueQualifiedCodes ==
    pc = "store" =>
        /\ \A k \in SummaryCalls :
              \E j \in 1..Len(active_deals) :
                  active_deals[j].deal_code = writer[k].deal_code
        /\ \A j \in 1..Len(active_deals) :
              LET c == active_deals[j].deal_code
                  sheets == {k \in SummaryCalls : writer[k].deal_code = c}
              IN /\ sheets # {} <=> QualifiedOfferCodes(c) # {}
                 /\ Cardinality(sheets) <= 1
                 /\ \A k \in sheets :
                       /\ Range(writer[k].rows) = QualifiedOfferCodes(c)
                       /\ \A r, r2 \in 1..Len(writer[k].rows) :
                             writer[k].rows[r] = writer[k].rows[r2] => r = r2

\* a summary of one code collected twice, from two partners, beside a deal
\* code that collected nothing
C5_Witness ==
    /\ pc = "store"
    /\ Len(partners) = 2
    /\ \E k \in SummaryCalls :
          /\ writer[k].deal_code = S1
          /\ writer[k].rows = <<OC1>>
          /\ deal_summaries[S1] = <<OC1, OC1>>
    /\ M1 \in DOMAIN deal_summaries
    /\ \A k \in SummaryCalls : writer[k].deal_code # M1

\* C6: no two to_excel calls of one run use the same sheet name.
C6_SheetNamesUnique ==
    \A k, l \in 1..Len(writer) :
        writer[k].sheet_name = writer[l].sheet_name => k = l

\* sanitize as the specification words it: remove every non-alphanumeric
\* character, then truncate
Sanitize(str, maxLen) == Take(SelectSeq(str, IsAlnum), maxLen)

\* C9: every partner/deal sheet is named sanitize(partnerId, 15) + "_" +
\* sanitize(columnName, 10).
C9_SheetNameSanitized ==
    \A k \in DealCalls :
        writer[k].sheet_name =
            Sanitize(StrOf(writer[k].partner_id), MaxIdLen) \o <<"_">>
                \o Sanitize(writer[k].deal.col_name, MaxDealLen)

FailureMessages ==
    {"warning_no_deal_code", "error_no_id_partner", "error_no_offer_code",
     "warning_no_matching_deals", "error_exception"}

\* C7: a run that ended with a warning or an error leaves no artifact to
\* download.
C7_NoArtifactAfterFailedRun ==
    (pc = "idle" /\ message \in FailureMessages) => processed_data = None

IsBlank(code) == \A k \in 1..Len(code) : code[k] \in WhitespaceChars

\* the widgets hold a table and a configuration the run must refuse
RefusedConfiguration ==
    /\ uploaded_file \notin {NoFile, Corrupt}
    /\ \/ \A i \in 1..Len(deal_types) : IsBlank(deal_types[i].deal_code)
       \/ \A h \in uploaded_file.headers : Strip(h) # ID_Partner
       \/ \A h \in uploaded_file.headers : Strip(h) # Offer_Code

\* C8: with no active deal, or without the 'ID Partner' or the 'Offer Code'
\* column, the handler never leaves its first step: no partner list, no
\* sheet, no collected offer code, no progress.
C8_NoProcessingOnRefusedConfiguration ==
    RefusedConfiguration =>
        /\ pc = "idle"
        /\ partners = <<>>
        /\ writer = <<>>
        /\ deal_summaries = <<>>
        /\ sheets_created = 0
        /\ progress_bar = <<>>
        /\ message \in {"", "warning_no_deal_code", "error_no_id_partner",
                        "error_no_offer_code"}

\* a run that ended on the missing 'Offer Code' column
C8_Witness ==
    /\ RefusedConfiguration
    /\ message = "error_no_offer_code"
    /\ \E i \in 1..Len(deal_types) : ~IsBlank(deal_types[i].deal_code)

FirstRow(p) == CHOOSE i \in RowIds :
    /\ df.rows[i][ID_Partner] = p
    /\ \A i2 \in RowIds : df.rows[i2][ID_Partner] = p => i <= i2

\* C10: partners are taken in first-seen order; progress is reported once
\* per partner, after that partner's sheets, with value k/N; every report
\* comes before the first summary sheet.
C10_ProgressPerPartnerInOrder ==
    pc # "idle" =>
        LET N == Len(partners) IN
        /\ {partners[k] : k \in 1..N} = {df.rows[i][ID_Partner] : i \in RowIds}
        /\ \A k, l \in 1..N : k < l => FirstRow(partners[k]) < FirstRow(partners[l])
        /\ progress_bar = << <<0, 1>> >> \o [k \in 1..idx |-> <<k, N>>]
        /\ idx <= N
        /\ \A c \in DealCalls :
              \E k \in 1..Done : writer[c].partner_id = partners[k]
        /\ \A k \in 1..idx, j \in 1..Len(active_deals) :
              (\E i \in RowIds :
                    RowOf(i, partners[k]) /\ Qualifies(i, active_deals[j]))
                => \E c \in DealCalls :
                      /\ writer[c].partner_id = partners[k]
                      /\ writer[c].deal = active_deals[j]
        /\ \A c, c2 \in DealCalls, k, k2 \in 1..N :
              (c < c2 /\ writer[c].partner_id = partners[k]
                      /\ writer[c2].partner_id = partners[k2]) => k <= k2
        /\ SummaryCalls # {} => (idx = N /\ progress_bar[N + 1] = <<N, N>>)

\* two partners first seen as B2 then A1, both reported, summaries written
C10_Witness ==
    /\ pc = "store"
    /\ partners = <<PB, PA>>
    /\ progress_bar = << <<0, 1>>, <<1, 2>>, <<2, 2>> >>
    /\ Cardinality(DealCalls) = 2
    /\ SummaryCalls # {}

====
